---- MODULE Spec2Model ----
(***************************************************************************)
(* Model of MotionifyProvider (react-native-motionify): the scroll         *)
(* direction detector, its idle timer and the hand-offs between the        *)
(* high-frequency context that runs onScroll and the JS context that owns  *)
(* the React state and the timers.                                         *)
(***************************************************************************)
EXTENDS Integers, Sequences, FiniteSets

VARIABLES
    scrollY,            \* useSharedValue(0)
    directionShared,    \* useSharedValue<Direction>("idle")
    direction,          \* useState<Direction>("idle")
    isScrolling,        \* useState(false)
    threshold,          \* useState(initialThreshold)
    supportIdle,        \* useState(initialSupportIdle)
    previousYRef,       \* useRef(0)
    scrollStartYRef,    \* useRef(0)
    isUserScrollingRef, \* useRef(false)
    scrollTimeoutRef,   \* useRef<Timeout | null>(null): NoTimer or a timer id
    thresholdRef,       \* useRef(threshold)
    supportIdleRef,     \* useRef(supportIdle)
    jsQueue,            \* runOnJS calls handed over and not yet run, oldest first
    timers,             \* ids of the setTimeout timers that are pending
    mounted,            \* the provider is mounted
    sampledSinceArm,    \* history: a sample asked for a re-arm after the last arming
    consumer,           \* a component that called useMotionify: what the call gave
    view,               \* a MotionifyView: its props and its animated style
    tab,                \* a MotionifyBottomTab: props, route refs, render closure, translateY
    hooks,              \* per consumer component: mounted, the config it gave useMotionify, history
    focus,              \* which MotionifyProvider instance the provider variables above hold
    other,              \* the state of the other MotionifyProvider instance, as a record
    calc                \* the last call of an exported helper: its arguments and what it gave

vars == <<scrollY, directionShared, direction, isScrolling, threshold, supportIdle,
          previousYRef, scrollStartYRef, isUserScrollingRef, scrollTimeoutRef,
          thresholdRef, supportIdleRef, jsQueue, timers, mounted, sampledSinceArm,
          consumer, view, tab, hooks, focus, other, calc>>

\* the provider's own state
providerVars ==
    <<scrollY, directionShared, direction, isScrolling, threshold, supportIdle,
      previousYRef, scrollStartYRef, isUserScrollingRef, scrollTimeoutRef,
      thresholdRef, supportIdleRef, jsQueue, timers, mounted, sampledSinceArm>>

\* the state outside the provider instance in focus: the components below it,
\* the other provider instance and the helper calls
viewVars == <<consumer, view, tab, hooks, focus, other, calc>>

-----------------------------------------------------------------------------
(* Bounds of the model *)

\* most runOnJS calls waiting for the JS context at once
MaxQueue == 2

\* timer ids that can be told apart (an id is reused only once it is neither
\* pending nor held by scrollTimeoutRef)
MaxTimers == 3

\* Program constants
DEFAULT_THRESHOLD == 8

NoTimer == 0

TimerIds == 1..MaxTimers

\* contentOffset.y values the host reports (overscroll below 0 and past the end included)
RawOffsets == {-20, 0, 50, 90, 100, 130}

\* contentSize.height and layoutMeasurement.height values the host reports
ContentHeights == {300, 700}

LayoutHeights == {600}

ScrollEvents ==
    [y : RawOffsets, contentHeight : ContentHeights, layoutHeight : LayoutHeights]

\* values of the provider's threshold prop
ThresholdProps == {-1, DEFAULT_THRESHOLD}

\* arguments passed to setThreshold
ThresholdArgs == {0, DEFAULT_THRESHOLD, 15}

Directions == {"up", "down", "idle"}

-----------------------------------------------------------------------------
(* Pure helpers *)

Max(a, b) == IF a >= b THEN a ELSE b

Min(a, b) == IF a <= b THEN a ELSE b

Abs(a) == IF a < 0 THEN -a ELSE a

\* mutant: the lower clamp Math.max(0, ...) left out
ClampedYNoLower(e) ==
    LET maxScrollY == Max(0, e.contentHeight - e.layoutHeight)
    IN  Min(e.y, maxScrollY)

\* mutant: maxScrollY taken as the content height
ClampedYContentHeight(e) ==
    LET maxScrollY == Max(0, e.contentHeight)
    IN  Max(0, Min(e.y, maxScrollY))

\* onScroll: clamp scroll position to valid range
ClampedY(e) ==
    LET maxScrollY == Max(0, e.contentHeight - e.layoutHeight)
    IN  Max(0, Min(e.y, maxScrollY))

\* mutant: the first sample of a gesture keeps the anchor of the gesture before
StartAfterInitKeepAnchor(clampedY) == scrollStartYRef

\* onScroll: scroll start after the first-scroll initialisation
StartAfterInit(clampedY) ==
    IF ~isUserScrollingRef THEN clampedY ELSE scrollStartYRef

\* onScroll: detect direction change
IsDirectionChange(currentTotalDelta, deltaY) ==
    \/ (currentTotalDelta > 0 /\ deltaY < 0)
    \/ (currentTotalDelta < 0 /\ deltaY > 0)
    \/ (currentTotalDelta = 0 /\ Abs(deltaY) > 0)

\* mutant: on a direction change the anchor goes to the previous offset (the peak)
StartAfterResetToPeak(clampedY) ==
    LET deltaY == clampedY - previousYRef
        start == StartAfterInit(clampedY)
    IN  IF IsDirectionChange(clampedY - start, deltaY) THEN previousYRef ELSE start

\* onScroll: scroll start after the reset on direction change
StartAfterReset(clampedY) ==
    LET deltaY == clampedY - previousYRef
        start == StartAfterInit(clampedY)
    IN  IF IsDirectionChange(clampedY - start, deltaY) THEN clampedY ELSE start

\* mutant: the threshold applied to the "down" side as well
NewDirectionSymmetric(totalDelta, thr) ==
    IF totalDelta > thr THEN "down"
    ELSE IF totalDelta < -thr THEN "up"
    ELSE "none"

\* mutant: no hysteresis band, any upward accumulation reports "up"
NewDirectionNoBand(totalDelta, thr) ==
    IF totalDelta > 0 THEN "down"
    ELSE IF totalDelta < 0 THEN "up"
    ELSE "none"

\* onScroll: new direction from the total delta; "none" is the code's null
NewDirection(totalDelta, thr) ==
    IF totalDelta > 0 THEN "down"
    ELSE IF totalDelta < -thr THEN "up"
    ELSE "none"

-----------------------------------------------------------------------------
(* The components below the provider *)

\* createContext<MotionifyContextValue | null>(null): what useContext gives
\* outside every provider
NullContext ==
    [provided |-> FALSE, scrollY |-> 0, direction |-> "idle",
     directionShared |-> "idle", isScrolling |-> FALSE]

\* the provider's memoized context value (the handlers left out)
contextValue ==
    [provided |-> TRUE, scrollY |-> scrollY, direction |-> direction,
     directionShared |-> directionShared, isScrolling |-> isScrolling]

\* useContext(MotionifyContext) of a component inside / outside the provider
useContext(inProvider) == IF inProvider THEN contextValue ELSE NullContext

\* mutant: the !context check left out
useMotionifyContextUnchecked(context) ==
    [threw |-> FALSE, returned |-> {context}]

\* useMotionifyContext: throws without a provider, else returns the context
useMotionifyContext(context) ==
    IF context = NullContext
    THEN [threw |-> TRUE, returned |-> {}]
    ELSE [threw |-> FALSE, returned |-> {context}]

NoCall == [called |-> FALSE, inProvider |-> FALSE, threw |-> FALSE, returned |-> {}]

\* MotionifyView props: hideOn, animatedY, fadeScale, translateRange (its
\* default) and customEffects
ViewTranslateRange == [from |-> 0, to |-> 160]

\* customEffects left out
NoEffects == "none"

\* the customEffects worklets a caller passes, by name
CustomEffectNames == {"fade", "rotate", "tint"}

\* what each customEffects worklet returns for a direction: "fade" gives an
\* opacity, "rotate" a transform, "tint" a key the built-in rules never set
customEffects(name, directionValue) ==
    CASE name = "fade" ->
            [k \in {"opacity"} |-> IF directionValue = "up" THEN 0 ELSE 1]
      [] name = "rotate" ->
            [k \in {"transform"} |-> << [name |-> "rotate", value |-> 45] >>]
      [] name = "tint" ->
            [k \in {"backgroundColor"} |-> directionValue]

\* mutant: a key the target has keeps the target's value
ObjectAssignTargetWins(target, source) ==
    [k \in DOMAIN target \cup DOMAIN source |->
        IF k \in DOMAIN target THEN target[k] ELSE source[k]]

\* Object.assign(target, source): the keys of both, source's value where it has one
ObjectAssign(target, source) ==
    [k \in DOMAIN target \cup DOMAIN source |->
        IF k \in DOMAIN source THEN source[k] ELSE target[k]]

\* a MotionifyView without customEffects
ViewProps ==
    [hideOn : {"down", "up"}, animatedY : BOOLEAN, fadeScale : BOOLEAN,
     translateRange : {ViewTranslateRange}, customEffects : {NoEffects}]

\* a MotionifyView with customEffects
ViewPropsCustom ==
    [hideOn : {"down"}, animatedY : {TRUE}, fadeScale : BOOLEAN,
     translateRange : {ViewTranslateRange}, customEffects : CustomEffectNames]

DefaultViewProps ==
    [hideOn |-> "down", animatedY |-> FALSE, fadeScale |-> FALSE,
     translateRange |-> ViewTranslateRange, customEffects |-> NoEffects]

\* mutant: the hide test inverted
MotionifyViewStyleInverted(directionValue, props) ==
    LET shouldHide == directionValue # props.hideOn
        transform ==
            (IF props.animatedY
             THEN << [name |-> "translateY",
                      value |-> IF shouldHide THEN props.translateRange.to
                                ELSE props.translateRange.from] >>
             ELSE <<>>)
            \o (IF props.fadeScale
                THEN << [name |-> "scale", value |-> IF shouldHide THEN 9 ELSE 10] >>
                ELSE <<>>)
        keys == (IF props.fadeScale THEN {"opacity"} ELSE {})
                \cup (IF Len(transform) > 0 THEN {"transform"} ELSE {})
        animatedStyles ==
            [k \in keys |->
                IF k = "opacity" THEN (IF shouldHide THEN 0 ELSE 1) ELSE transform]
    IN  IF props.customEffects # NoEffects
        THEN ObjectAssign(animatedStyles,
                          customEffects(props.customEffects, directionValue))
        ELSE animatedStyles

\* MotionifyView's useAnimatedStyle worklet: the style object it returns, with
\* the withTiming targets as values (scale in tenths: 9 is 0.9, 10 is 1) and
\* the transform as the list of its entries
MotionifyViewStyle(directionValue, props) ==
    LET shouldHide == directionValue = props.hideOn
        transform ==
            (IF props.animatedY
             THEN << [name |-> "translateY",
                      value |-> IF shouldHide THEN props.translateRange.to
                                ELSE props.translateRange.from] >>
             ELSE <<>>)
            \o (IF props.fadeScale
                THEN << [name |-> "scale", value |-> IF shouldHide THEN 9 ELSE 10] >>
                ELSE <<>>)
        keys == (IF props.fadeScale THEN {"opacity"} ELSE {})
                \cup (IF Len(transform) > 0 THEN {"transform"} ELSE {})
        animatedStyles ==
            [k \in keys |->
                IF k = "opacity" THEN (IF shouldHide THEN 0 ELSE 1) ELSE transform]
    IN  IF props.customEffects # NoEffects
        THEN ObjectAssign(animatedStyles,
                          customEffects(props.customEffects, directionValue))
        ELSE animatedStyles

\* the entries of a style's transform (none when the key is absent)
TransformOf(style) ==
    IF "transform" \in DOMAIN style THEN style["transform"] ELSE <<>>

\* the transform of the style has an entry of that name
HasTransform(style, name) ==
    \E i \in 1..Len(TransformOf(style)) : TransformOf(style)[i].name = name

\* the value of the transform entry of that name
TransformValue(style, name) ==
    LET t == TransformOf(style)
    IN  t[CHOOSE i \in 1..Len(t) : t[i].name = name].value

\* MotionifyBottomTab props: hideOn, exclude, translateRange; currentId values
Undefined == "undefined"

RouteIds == {Undefined, "Home", "Feed"}

TabTranslateRange == [from |-> 0, to |-> 80]

TabProps ==
    [hideOn : {"down", "up"}, exclude : {{}, {"Home"}},
     translateRange : {TabTranslateRange}]

DefaultTabProps ==
    [hideOn |-> "down", exclude |-> {}, translateRange |-> TabTranslateRange]

\* MotionifyBottomTab: isExcluded
IsExcluded(exclude, currentId) ==
    /\ exclude # {}
    /\ currentId # Undefined
    /\ currentId \in exclude

\* mutant: the route-change branch left out
TabTranslateYNoReset(isExcluded, idChanged, directionValue, props) ==
    IF isExcluded THEN props.translateRange.from
    ELSE IF directionValue = props.hideOn THEN props.translateRange.to
    ELSE props.translateRange.from

\* mutant: the exclusion branch left out
TabTranslateYNoExclude(isExcluded, idChanged, directionValue, props) ==
    IF idChanged THEN props.translateRange.from
    ELSE IF directionValue = props.hideOn THEN props.translateRange.to
    ELSE props.translateRange.from

\* MotionifyBottomTab's useDerivedValue worklet: the withTiming target
TabTranslateY(isExcluded, idChanged, directionValue, props) ==
    IF isExcluded THEN props.translateRange.from
    ELSE IF idChanged THEN props.translateRange.from
    ELSE IF directionValue = props.hideOn THEN props.translateRange.to
    ELSE IF directionValue # props.hideOn THEN props.translateRange.from
    ELSE props.translateRange.from

\* the tab after its first render with the given props and currentId
MountedTab(props, currentId) ==
    [props |-> props, currentId |-> currentId, prevIdRef |-> currentId,
     isExcluded |-> IsExcluded(props.exclude, currentId), idChanged |-> FALSE,
     translateY |-> TabTranslateY(IsExcluded(props.exclude, currentId), FALSE,
                                  "idle", props)]

\* the view after its first render with the given props
MountedView(props) == [props |-> props, style |-> MotionifyViewStyle("idle", props)]

\* the components that call useMotionify with a config
Consumers == {"A", "B"}

DEFAULT_SUPPORT_IDLE == FALSE

\* a config after its defaults are filled in (an omitted field is its default)
HookConfigs == [threshold : {DEFAULT_THRESHOLD, 15}, supportIdle : BOOLEAN]

DefaultConfig == [threshold |-> DEFAULT_THRESHOLD, supportIdle |-> DEFAULT_SUPPORT_IDLE]

\* thresholdAtMount is history: the threshold in effect when the component mounted
NoHook ==
    [mounted |-> FALSE, config |-> DefaultConfig, thresholdAtMount |-> DEFAULT_THRESHOLD]

NoHooks == [c \in Consumers |-> NoHook]

\* useMotionify: the threshold effect, as the state it leaves
ThresholdEffect(config, current) ==
    IF config.threshold # DEFAULT_THRESHOLD /\ config.threshold > 0
    THEN config.threshold
    ELSE current

\* useMotionify: the supportIdle effect, as the state it leaves
SupportIdleEffect(config, current) ==
    IF config.supportIdle # DEFAULT_SUPPORT_IDLE THEN config.supportIdle ELSE current

\* useMotionify: the cleanup of the threshold effect
ThresholdCleanup(config, current) ==
    IF config.threshold # DEFAULT_THRESHOLD THEN DEFAULT_THRESHOLD ELSE current

\* useMotionify: the cleanup of the supportIdle effect
SupportIdleCleanup(config, current) ==
    IF config.supportIdle # DEFAULT_SUPPORT_IDLE THEN DEFAULT_SUPPORT_IDLE ELSE current

-----------------------------------------------------------------------------
(* JavaScript numbers: binary floating point, rounded to nearest, ties to    *)
(* even, with a short mantissa.  A number is m * 2^e with m odd (or 0),      *)
(* NaN, or an infinity.                                                      *)

\* bits of the mantissa
MantissaBits == 8

RECURSIVE Pow2(_)
Pow2(k) == IF k <= 0 THEN 1 ELSE 2 * Pow2(k - 1)

RECURSIVE BitLen(_)
BitLen(n) == IF n = 0 THEN 0 ELSE 1 + BitLen(n \div 2)

NaN == [kind |-> "nan", m |-> 0, e |-> 0]

Infinity(sign) == [kind |-> "inf", m |-> sign, e |-> 0]

Sign(n) == IF n < 0 THEN -1 ELSE 1

\* the one representation of m * 2^e
RECURSIVE Normal(_, _)
Normal(m, e) ==
    IF m = 0 THEN [kind |-> "num", m |-> 0, e |-> 0]
    ELSE IF m % 2 = 0 THEN Normal(m \div 2, e + 1)
    ELSE [kind |-> "num", m |-> m, e |-> e]

\* n * 2^e rounded to MantissaBits bits
Round(n, e) ==
    LET a == Abs(n)
        s == BitLen(a) - MantissaBits
    IN  IF s <= 0 THEN Normal(n, e)
        ELSE LET q == a \div Pow2(s)
                 r == a % Pow2(s)
                 half == Pow2(s - 1)
                 up == r > half \/ (r = half /\ q % 2 = 1)
                 mag == IF up THEN q + 1 ELSE q
             IN  Normal(Sign(n) * mag, e + s)

\* the number literal n
Num(n) == Round(n, 0)

IsFinite(x) == x.kind = "num"

Neg(x) == [x EXCEPT !.m = -x.m]

\* x + y
Plus(x, y) ==
    IF x.kind = "nan" \/ y.kind = "nan" THEN NaN
    ELSE IF x.kind = "inf" /\ y.kind = "inf" THEN (IF x.m = y.m THEN x ELSE NaN)
    ELSE IF x.kind = "inf" THEN x
    ELSE IF y.kind = "inf" THEN y
    ELSE LET low == Min(x.e, y.e)
         IN  Round(x.m * Pow2(x.e - low) + y.m * Pow2(y.e - low), low)

\* x - y
Minus(x, y) == Plus(x, Neg(y))

\* x * y
Times(x, y) ==
    IF x.kind = "nan" \/ y.kind = "nan" THEN NaN
    ELSE IF x.kind = "inf" \/ y.kind = "inf"
         THEN (IF x.m = 0 \/ y.m = 0 THEN NaN ELSE Infinity(Sign(x.m) * Sign(y.m)))
    ELSE Round(x.m * y.m, x.e + y.e)

\* x / y
Divide(x, y) ==
    IF x.kind = "nan" \/ y.kind = "nan" THEN NaN
    ELSE IF x.kind = "inf"
         THEN (IF y.kind = "inf" THEN NaN ELSE Infinity(Sign(x.m) * Sign(y.m)))
    ELSE IF y.kind = "inf" THEN Num(0)
    ELSE IF y.m = 0 THEN (IF x.m = 0 THEN NaN ELSE Infinity(Sign(x.m)))
    ELSE LET k == 2 * MantissaBits
             q == (Abs(x.m) * Pow2(k)) \div Abs(y.m)
             sticky == IF (Abs(x.m) * Pow2(k)) % Abs(y.m) = 0 THEN 0 ELSE 1
         IN  Round(Sign(x.m) * Sign(y.m) * (2 * q + sticky), x.e - y.e - k - 1)

\* x < y (false when either is NaN)
Less(x, y) ==
    IF x.kind = "nan" \/ y.kind = "nan" THEN FALSE
    ELSE IF x.kind = "inf" THEN x.m < 0 /\ x # y
    ELSE IF y.kind = "inf" THEN y.m > 0
    ELSE LET low == Min(x.e, y.e)
         IN  x.m * Pow2(x.e - low) < y.m * Pow2(y.e - low)

\* Math.max(x, y)
MathMax(x, y) ==
    IF x.kind = "nan" \/ y.kind = "nan" THEN NaN
    ELSE IF Less(x, y) THEN y ELSE x

\* Math.min(x, y)
MathMin(x, y) ==
    IF x.kind = "nan" \/ y.kind = "nan" THEN NaN
    ELSE IF Less(y, x) THEN y ELSE x

-----------------------------------------------------------------------------
(* The exported helpers *)

\* clamp: Math.min(Math.max(value, min), max)
clamp(value, min, max) == MathMin(MathMax(value, min), max)

\* lerp: start + (end - start) * progress
lerp(start, end, progress) == Plus(start, Times(Minus(end, start), progress))

\* mapRange
mapRange(value, inputMin, inputMax, outputMin, outputMax) ==
    LET progress == Divide(Minus(value, inputMin), Minus(inputMax, inputMin))
    IN  lerp(outputMin, outputMax, progress)

\* mutant: an omitted mode falls through to EXTEND
getExtrapolationModeDefaultExtend(extrapolate) ==
    IF extrapolate = "clamp" THEN "CLAMP"
    ELSE IF extrapolate = "identity" THEN "IDENTITY"
    ELSE "EXTEND"

\* getExtrapolationMode: "clamp", an omitted mode and anything else give CLAMP
getExtrapolationMode(extrapolate) ==
    IF extrapolate = "extend" THEN "EXTEND"
    ELSE IF extrapolate = "identity" THEN "IDENTITY"
    ELSE "CLAMP"

\* createInterpolation: the config object, built from the arguments as they are
createInterpolation(inputRange, outputRange, extrapolate) ==
    [threw |-> FALSE,
     inputRange |-> inputRange, outputRange |-> outputRange,
     extrapolate |-> extrapolate]

\* createFadeInterpolation
createFadeInterpolation(scrollDistance, fadeIn) ==
    [threw |-> FALSE,
     inputRange |-> <<Num(0), Divide(scrollDistance, Num(2)), scrollDistance>>,
     outputRange |-> IF fadeIn
                     THEN <<Num(0), Divide(Num(1), Num(2)), Num(1)>>
                     ELSE <<Num(1), Divide(Num(1), Num(2)), Num(0)>>,
     extrapolate |-> "clamp"]

\* interpolate, step 1: the index i of the bracketing pair i, i+1
Bracket(input, inputRange) ==
    LET last == Len(inputRange)
        inside == {i \in 1..(last - 1) :
                      /\ ~Less(input, inputRange[i])
                      /\ ~Less(inputRange[i + 1], input)}
    IN  IF Less(input, inputRange[1]) THEN 1
        ELSE IF Less(inputRange[last], input) THEN last - 1
        ELSE IF inside = {} THEN 1
        ELSE CHOOSE i \in inside : \A j \in inside : i <= j

\* interpolate: bracketing, progress (0 on a zero-width segment), the raw
\* output, and the extrapolation outside [inputRange[first], inputRange[last]]
interpolate(input, inputRange, outputRange, type) ==
    LET i == Bracket(input, inputRange)
        width == Minus(inputRange[i + 1], inputRange[i])
        progress == IF width = Num(0) THEN Num(0)
                    ELSE Divide(Minus(input, inputRange[i]), width)
        rawOutput == Plus(outputRange[i],
                          Times(progress, Minus(outputRange[i + 1], outputRange[i])))
        outside == \/ Less(input, inputRange[1])
                   \/ Less(inputRange[Len(inputRange)], input)
    IN  IF ~outside THEN rawOutput
        ELSE IF type = "CLAMP"
             THEN clamp(rawOutput,
                        MathMin(outputRange[i], outputRange[i + 1]),
                        MathMax(outputRange[i], outputRange[i + 1]))
        ELSE IF type = "EXTEND" THEN rawOutput
        ELSE input

NoCalc == [fn |-> "none"]

\* numbers passed as value / input
Numbers == {Num(-10), Num(0), Num(50), Num(100), Num(150)}

Half == Divide(Num(1), Num(2))

\* inputRange arrays of the interpolation configs the components are given
InputRanges ==
    {<<Num(0), Num(100)>>, <<Num(0), Num(50), Num(100)>>, <<Num(100), Num(100)>>}

\* outputRange arrays of those configs
OutputRanges ==
    {<<Num(0), Num(50)>>, <<Num(50), Num(0)>>, <<Num(1), Half, Num(0)>>}

\* the extrapolate field: a mode, or omitted
ExtrapolateArgs == {"clamp", "extend", "identity", Undefined}

\* arrays passed to createInterpolation
InputRangeArgs == InputRanges \cup {<<Num(0)>>, <<Num(100), Num(0)>>}

\* mapRange arguments
InputBounds == {Num(0), Num(100)}

OutputBounds == {Num(0), Num(1), Num(50), Num(258)}

\* the style channels of MotionifyViewWithInterpolation, in the order the
\* worklet handles them
Channels ==
    <<"opacity", "translateX", "translateY", "scale", "scaleX", "scaleY", "rotate">>

ChannelSet == {Channels[i] : i \in 1..Len(Channels)}

\* the config a caller supplies for a channel (one per channel, all different)
ChannelConfig(channel) ==
    CASE channel = "opacity" ->
            createInterpolation(<<Num(0), Num(100)>>, <<Num(1), Num(0)>>, "clamp")
      [] channel = "translateX" ->
            createInterpolation(<<Num(0), Num(100)>>, <<Num(0), Num(20)>>, Undefined)
      [] channel = "translateY" ->
            createInterpolation(<<Num(0), Num(100)>>, <<Num(0), Num(50)>>, "extend")
      [] channel = "scale" ->
            createInterpolation(<<Num(0), Num(100)>>, <<Num(1), Num(2)>>, "clamp")
      [] channel = "scaleX" ->
            createInterpolation(<<Num(0), Num(100)>>, <<Num(1), Num(3)>>, "clamp")
      [] channel = "scaleY" ->
            createInterpolation(<<Num(0), Num(100)>>, <<Num(1), Num(4)>>, "identity")
      [] channel = "rotate" ->
            createInterpolation(<<Num(0), Num(100)>>, <<Num(0), Num(90)>>, "extend")

\* the interpolations prop with a config for each channel of `supplied`
Interpolations(supplied) == [channel \in supplied |-> ChannelConfig(channel)]

\* the sets of channels the callers configure
ChannelSubsets ==
    {S \in SUBSET ChannelSet :
        \/ Cardinality(S) <= 1
        \/ Cardinality(S) = 2 /\ "rotate" \in S
        \/ S = ChannelSet}

\* the value prop: omitted, or a shared value holding a number
NoValue == [given |-> FALSE, value |-> Num(0)]

ExplicitValues == {[given |-> TRUE, value |-> n] : n \in {Num(0), Num(150)}}

\* a MotionifyViewWithInterpolation without customAnimatedStyle
InterpolationProps ==
    [value : {NoValue} \cup ExplicitValues,
     interpolations : {Interpolations(S) : S \in ChannelSubsets},
     customAnimatedStyle : {NoEffects}]

\* a MotionifyViewWithInterpolation with customAnimatedStyle
InterpolationPropsCustom ==
    [value : {NoValue, [given |-> TRUE, value |-> Num(150)]},
     interpolations : {Interpolations(S) :
                          S \in {{}, {"opacity"}, {"opacity", "rotate"}}},
     customAnimatedStyle : CustomEffectNames]

\* the template string `${rotateValue}deg`: the number's text and the unit after it
Suffix(number, unit) == [number |-> number, unit |-> unit]

\* what each customAnimatedStyle worklet returns for a scroll value
customAnimatedStyle(name, scrollValue) ==
    CASE name = "fade" ->
            [k \in {"opacity"} |-> IF Less(scrollValue, Num(50)) THEN Num(0) ELSE Num(1)]
      [] name = "rotate" ->
            [k \in {"transform"} |->
                << [name |-> "rotate", value |-> Suffix(scrollValue, "deg")] >>]
      [] name = "tint" ->
            [k \in {"backgroundColor"} |-> "red"]

\* mutant: the provider's scrollY used although a value prop is given
scrollValueProviderOnly(props) == Num(scrollY)

\* MotionifyViewWithInterpolation: explicitValue || providerScrollY, read
scrollValue(props) ==
    IF props.value.given THEN props.value.value ELSE Num(scrollY)

\* one channel's block of the worklet: interpolate(scrollValue.value,
\* inputRange, outputRange, getExtrapolationMode(extrapolate))
InterpolateChannel(value, config) ==
    interpolate(value, config.inputRange, config.outputRange,
                getExtrapolationMode(config.extrapolate))

\* the interpolated number of every channel that has a config
InterpolatedValues(value, interpolations) ==
    [channel \in DOMAIN interpolations |->
        InterpolateChannel(value, interpolations[channel])]

\* the object a transform block pushes: the number, for rotate `${rotateValue}deg`
ChannelEntry(channel, number) ==
    [name |-> channel,
     value |-> IF channel = "rotate" THEN Suffix(number, "deg") ELSE number]

\* the transform array after the transform blocks from the i-th channel on
RECURSIVE TransformFrom(_, _)
TransformFrom(values, i) ==
    IF i > Len(Channels) THEN <<>>
    ELSE (IF Channels[i] \in DOMAIN values
          THEN << ChannelEntry(Channels[i], values[Channels[i]]) >>
          ELSE <<>>)
         \o TransformFrom(values, i + 1)

\* the keys of animatedStyles: opacity when configured, transform when the
\* transform array is not empty
StyleKeys(values) ==
    (IF "opacity" \in DOMAIN values THEN {"opacity"} ELSE {})
    \cup (IF Len(TransformFrom(values, 2)) > 0 THEN {"transform"} ELSE {})

\* animatedStyles before the custom styles are applied (the transform blocks
\* start at the second channel)
InterpolatedStyles(values) ==
    [k \in StyleKeys(values) |->
        IF k = "opacity" THEN values["opacity"] ELSE TransformFrom(values, 2)]

\* the object a worklet without result contributes
NoStyles == [k \in {} |-> 0]

\* MotionifyViewWithInterpolation's useAnimatedStyle worklet: the style object
\* it returns for a scroll value
MotionifyViewWithInterpolation(value, props) ==
    ObjectAssign(InterpolatedStyles(InterpolatedValues(value, props.interpolations)),
                 IF props.customAnimatedStyle # NoEffects
                 THEN customAnimatedStyle(props.customAnimatedStyle, value)
                 ELSE NoStyles)

\* the MotionifyProvider instances that are alive
Scopes == {1, 2}

\* a provider instance after its first render: its shared values, state and refs
MountedProvider(initialThreshold, initialSupportIdle) ==
    [scrollY |-> 0, directionShared |-> "idle", direction |-> "idle",
     isScrolling |-> FALSE, threshold |-> initialThreshold,
     supportIdle |-> initialSupportIdle, previousYRef |-> 0, scrollStartYRef |-> 0,
     isUserScrollingRef |-> FALSE, scrollTimeoutRef |-> NoTimer,
     thresholdRef |-> initialThreshold, supportIdleRef |-> initialSupportIdle,
     jsQueue |-> <<>>, timers |-> {}, mounted |-> TRUE, sampledSinceArm |-> FALSE]

\* the state of the provider instance in focus, as a record
FocusedProvider ==
    [scrollY |-> scrollY, directionShared |-> directionShared, direction |-> direction,
     isScrolling |-> isScrolling, threshold |-> threshold, supportIdle |-> supportIdle,
     previousYRef |-> previousYRef, scrollStartYRef |-> scrollStartYRef,
     isUserScrollingRef |-> isUserScrollingRef, scrollTimeoutRef |-> scrollTimeoutRef,
     thresholdRef |-> thresholdRef, supportIdleRef |-> supportIdleRef,
     jsQueue |-> jsQueue, timers |-> timers, mounted |-> mounted,
     sampledSinceArm |-> sampledSinceArm]

\* the state of provider instance s
ScopeState(s) == IF focus = s THEN FocusedProvider ELSE other

-----------------------------------------------------------------------------
(* Initial state: the provider after its first render *)

InitProvider ==
    /\ scrollY = 0
    /\ directionShared = "idle"
    /\ direction = "idle"
    /\ isScrolling = FALSE
    /\ threshold \in ThresholdProps
    /\ supportIdle \in BOOLEAN
    /\ previousYRef = 0
    /\ scrollStartYRef = 0
    /\ isUserScrollingRef = FALSE
    /\ scrollTimeoutRef = NoTimer
    /\ thresholdRef = threshold
    /\ supportIdleRef = supportIdle
    /\ jsQueue = <<>>
    /\ timers = {}
    /\ mounted = TRUE
    /\ sampledSinceArm = FALSE

\* the provider alone: the components below it keep their default props
Init ==
    /\ InitProvider
    /\ consumer = NoCall
    /\ view = MountedView(DefaultViewProps)
    /\ tab = MountedTab(DefaultTabProps, Undefined)
    /\ hooks = NoHooks
    /\ focus = 1
    /\ other = MountedProvider(DEFAULT_THRESHOLD, DEFAULT_SUPPORT_IDLE)
    /\ calc = NoCalc

-----------------------------------------------------------------------------
(* The high-frequency context *)

\* mutant: the idle timeout re-armed on every sample, supportIdle or not
HandOffsAlwaysIdle(first, newDirection) ==
    (IF first THEN << <<"updateIsScrolling", "true">> >> ELSE <<>>)
    \o << <<"resetScrollTimeout", "">> >>
    \o (IF newDirection # "none" /\ newDirection # directionShared
        THEN << <<"updateDirection", newDirection>> >> ELSE <<>>)

\* mutant: updateDirection handed over for every classified sample
HandOffsEveryDirection(first, newDirection) ==
    (IF first THEN << <<"updateIsScrolling", "true">> >> ELSE <<>>)
    \o (IF supportIdleRef THEN << <<"resetScrollTimeout", "">> >> ELSE <<>>)
    \o (IF newDirection # "none"
        THEN << <<"updateDirection", newDirection>> >> ELSE <<>>)

\* mutant: every later sample of a gesture reports the scrolling state as false
HandOffsScrollingEachSample(first, newDirection) ==
    << <<"updateIsScrolling", IF first THEN "true" ELSE "false">> >>
    \o (IF supportIdleRef THEN << <<"resetScrollTimeout", "">> >> ELSE <<>>)
    \o (IF newDirection # "none" /\ newDirection # directionShared
        THEN << <<"updateDirection", newDirection>> >> ELSE <<>>)

\* the runOnJS calls one sample hands over, in program order
HandOffs(first, newDirection) ==
    (IF first THEN << <<"updateIsScrolling", "true">> >> ELSE <<>>)
    \o (IF supportIdleRef THEN << <<"resetScrollTimeout", "">> >> ELSE <<>>)
    \o (IF newDirection # "none" /\ newDirection # directionShared
        THEN << <<"updateDirection", newDirection>> >> ELSE <<>>)

onScroll(e) ==
    LET clampedY == ClampedY(e)
        first == ~isUserScrollingRef
        start == StartAfterReset(clampedY)
        totalDelta == clampedY - start
        newDirection == NewDirection(totalDelta, thresholdRef)
        calls == HandOffs(first, newDirection)
    IN  /\ mounted
        /\ scrollY' = clampedY
        /\ Len(jsQueue) + Len(calls) <= MaxQueue
        /\ isUserScrollingRef' = TRUE
        /\ scrollStartYRef' = start
        /\ directionShared' =
              IF newDirection # "none" /\ newDirection # directionShared
              THEN newDirection ELSE directionShared
        /\ previousYRef' = clampedY
        /\ jsQueue' = jsQueue \o calls
        /\ sampledSinceArm' = (sampledSinceArm \/ supportIdleRef)
        /\ UNCHANGED <<direction, isScrolling, threshold, supportIdle,
                       scrollTimeoutRef, thresholdRef, supportIdleRef, timers, mounted,
                       viewVars>>

-----------------------------------------------------------------------------
(* The JS context *)

\* setDirection / setIsScrolling: React drops state updates of an unmounted component
updateDirection(newDirection) ==
    /\ direction' = IF mounted THEN newDirection ELSE direction
    /\ UNCHANGED <<scrollY, directionShared, isScrolling, threshold, supportIdle,
                   previousYRef, scrollStartYRef, isUserScrollingRef, scrollTimeoutRef,
                   thresholdRef, supportIdleRef, timers, mounted, sampledSinceArm, viewVars>>

updateIsScrolling(scrolling) ==
    /\ isScrolling' = IF mounted THEN scrolling ELSE isScrolling
    /\ UNCHANGED <<scrollY, directionShared, direction, threshold, supportIdle,
                   previousYRef, scrollStartYRef, isUserScrollingRef, scrollTimeoutRef,
                   thresholdRef, supportIdleRef, timers, mounted, sampledSinceArm, viewVars>>

\* clearTimeout(scrollTimeoutRef.current) when it is set
Cleared == IF scrollTimeoutRef # NoTimer THEN timers \ {scrollTimeoutRef} ELSE timers

\* the id setTimeout returns
FreshTimers == {id \in TimerIds : id \notin timers /\ id # scrollTimeoutRef}

resetScrollTimeout ==
    /\ FreshTimers # {}
    /\ LET id == CHOOSE i \in FreshTimers : \A j \in FreshTimers : i <= j
       IN  /\ timers' = Cleared \cup {id}
           /\ scrollTimeoutRef' = id
    /\ sampledSinceArm' = FALSE
    /\ UNCHANGED <<scrollY, directionShared, direction, isScrolling, threshold,
                   supportIdle, previousYRef, scrollStartYRef, isUserScrollingRef,
                   thresholdRef, supportIdleRef, mounted, viewVars>>

\* the JS context runs the oldest runOnJS call
RunOnJS ==
    /\ jsQueue # <<>>
    /\ jsQueue' = Tail(jsQueue)
    /\ LET call == Head(jsQueue)
       IN  \/ call[1] = "updateDirection" /\ updateDirection(call[2])
           \/ call[1] = "updateIsScrolling" /\ updateIsScrolling(call[2] = "true")
           \/ call[1] = "resetScrollTimeout" /\ resetScrollTimeout

\* a pending timer fires: resetToIdle
resetToIdle(id) ==
    /\ id \in timers
    /\ timers' = timers \ {id}
    /\ isUserScrollingRef' = FALSE
    /\ directionShared' = "idle"
    /\ direction' = IF mounted THEN "idle" ELSE direction
    /\ isScrolling' = IF mounted THEN FALSE ELSE isScrolling
    /\ UNCHANGED <<scrollY, threshold, supportIdle, previousYRef, scrollStartYRef,
                   scrollTimeoutRef, thresholdRef, supportIdleRef, jsQueue, mounted,
                   sampledSinceArm, viewVars>>

\* mutant: the newThreshold > 0 check left out
setThresholdUnchecked(newThreshold) ==
    /\ mounted
    /\ threshold' = newThreshold
    /\ UNCHANGED <<scrollY, directionShared, direction, isScrolling, supportIdle,
                   previousYRef, scrollStartYRef, isUserScrollingRef, scrollTimeoutRef,
                   thresholdRef, supportIdleRef, jsQueue, timers, mounted,
                   sampledSinceArm, viewVars>>

\* mutant: the threshold kept in one place for every provider instance
setThresholdSingleton(newThreshold) ==
    /\ mounted
    /\ threshold' = IF newThreshold > 0 THEN newThreshold ELSE threshold
    /\ other' = [other EXCEPT !.threshold = threshold']
    /\ UNCHANGED <<scrollY, directionShared, direction, isScrolling, supportIdle,
                   previousYRef, scrollStartYRef, isUserScrollingRef, scrollTimeoutRef,
                   thresholdRef, supportIdleRef, jsQueue, timers, mounted,
                   sampledSinceArm, consumer, view, tab, hooks, focus, calc>>

setThreshold(newThreshold) ==
    /\ mounted
    /\ threshold' = IF newThreshold > 0 THEN newThreshold ELSE threshold
    /\ UNCHANGED <<scrollY, directionShared, direction, isScrolling, supportIdle,
                   previousYRef, scrollStartYRef, isUserScrollingRef, scrollTimeoutRef,
                   thresholdRef, supportIdleRef, jsQueue, timers, mounted,
                   sampledSinceArm, viewVars>>

setSupportIdle(enabled) ==
    /\ mounted
    /\ supportIdle' = enabled
    /\ UNCHANGED <<scrollY, directionShared, direction, isScrolling, threshold,
                   previousYRef, scrollStartYRef, isUserScrollingRef, scrollTimeoutRef,
                   thresholdRef, supportIdleRef, jsQueue, timers, mounted,
                   sampledSinceArm, viewVars>>

\* useEffect(() => { thresholdRef.current = threshold }, [threshold])
SyncThresholdRef ==
    /\ mounted
    /\ thresholdRef # threshold
    /\ thresholdRef' = threshold
    /\ UNCHANGED <<scrollY, directionShared, direction, isScrolling, threshold,
                   supportIdle, previousYRef, scrollStartYRef, isUserScrollingRef,
                   scrollTimeoutRef, supportIdleRef, jsQueue, timers, mounted,
                   sampledSinceArm, viewVars>>

\* useEffect(() => { supportIdleRef.current = supportIdle }, [supportIdle])
SyncSupportIdleRef ==
    /\ mounted
    /\ supportIdleRef # supportIdle
    /\ supportIdleRef' = supportIdle
    /\ UNCHANGED <<scrollY, directionShared, direction, isScrolling, threshold,
                   supportIdle, previousYRef, scrollStartYRef, isUserScrollingRef,
                   scrollTimeoutRef, thresholdRef, jsQueue, timers, mounted,
                   sampledSinceArm, viewVars>>

\* cleanup effect on unmount
Unmount ==
    /\ mounted
    /\ mounted' = FALSE
    /\ timers' = Cleared
    /\ UNCHANGED <<scrollY, directionShared, direction, isScrolling, threshold,
                   supportIdle, previousYRef, scrollStartYRef, isUserScrollingRef,
                   scrollTimeoutRef, thresholdRef, supportIdleRef, jsQueue,
                   sampledSinceArm, viewVars>>

-----------------------------------------------------------------------------
(* The components below the provider *)

\* a component renders with useMotionify() (default config: its effects do
\* nothing), inside the mounted provider or outside every provider
useMotionify(inProvider) ==
    /\ inProvider => mounted
    /\ LET got == useMotionifyContext(useContext(inProvider))
       IN  consumer' = [called |-> TRUE, inProvider |-> inProvider,
                        threw |-> got.threw, returned |-> got.returned]
    /\ UNCHANGED <<providerVars, view, tab, hooks, focus, other, calc>>

\* MotionifyView: the useAnimatedStyle worklet runs on directionShared
animatedStyle ==
    /\ mounted
    /\ view' = [view EXCEPT !.style = MotionifyViewStyle(directionShared, view.props)]
    /\ UNCHANGED <<providerVars, consumer, tab, hooks, focus, other, calc>>

\* MotionifyBottomTab renders with currentId (a new route, or the same one):
\* idChanged and isExcluded are taken, the derived value is evaluated with
\* them, and the effect stores currentId in prevIdRef
MotionifyBottomTab(currentId) ==
    /\ mounted
    /\ LET idChanged == tab.prevIdRef # currentId
           isExcluded == IsExcluded(tab.props.exclude, currentId)
       IN  tab' = [tab EXCEPT !.currentId = currentId,
                              !.prevIdRef = currentId,
                              !.isExcluded = isExcluded,
                              !.idChanged = idChanged,
                              !.translateY = TabTranslateY(isExcluded, idChanged,
                                                directionShared, tab.props)]
    /\ UNCHANGED <<providerVars, consumer, view, hooks, focus, other, calc>>

\* MotionifyBottomTab: the useDerivedValue worklet runs on directionShared,
\* with the isExcluded and idChanged of the last render
translateY ==
    /\ mounted
    /\ tab' = [tab EXCEPT !.translateY = TabTranslateY(tab.isExcluded, tab.idChanged,
                                              directionShared, tab.props)]
    /\ UNCHANGED <<providerVars, consumer, view, hooks, focus, other, calc>>

\* a component mounts with useMotionify(config): the hook returns the context
\* and both effects run after the first render
MountConsumer(c, config) ==
    /\ mounted
    /\ ~hooks[c].mounted
    /\ ~useMotionifyContext(useContext(TRUE)).threw
    /\ hooks' = [hooks EXCEPT ![c] = [mounted |-> TRUE, config |-> config,
                                      thresholdAtMount |-> threshold]]
    /\ threshold' = ThresholdEffect(config, threshold)
    /\ supportIdle' = SupportIdleEffect(config, supportIdle)
    /\ UNCHANGED <<scrollY, directionShared, direction, isScrolling,
                   previousYRef, scrollStartYRef, isUserScrollingRef, scrollTimeoutRef,
                   thresholdRef, supportIdleRef, jsQueue, timers, mounted,
                   sampledSinceArm, consumer, view, tab, focus, other, calc>>

\* the component unmounts: the cleanups of both effects run
UnmountConsumer(c) ==
    /\ mounted
    /\ hooks[c].mounted
    /\ hooks' = [hooks EXCEPT ![c] = NoHook]
    /\ threshold' = ThresholdCleanup(hooks[c].config, threshold)
    /\ supportIdle' = SupportIdleCleanup(hooks[c].config, supportIdle)
    /\ UNCHANGED <<scrollY, directionShared, direction, isScrolling,
                   previousYRef, scrollStartYRef, isUserScrollingRef, scrollTimeoutRef,
                   thresholdRef, supportIdleRef, jsQueue, timers, mounted,
                   sampledSinceArm, consumer, view, tab, focus, other, calc>>

\* a caller uses the exported mapRange
CallMapRange ==
    \E value \in Numbers, inputMin \in InputBounds, inputMax \in InputBounds,
       outputMin \in OutputBounds, outputMax \in OutputBounds :
        /\ calc' = [fn |-> "mapRange", value |-> value,
                    inputMin |-> inputMin, inputMax |-> inputMax,
                    outputMin |-> outputMin, outputMax |-> outputMax,
                    result |-> mapRange(value, inputMin, inputMax, outputMin, outputMax)]
        /\ UNCHANGED <<providerVars, consumer, view, tab, hooks, focus, other>>

\* MotionifyViewWithInterpolation evaluates one channel's config at a scroll value
CallInterpolate ==
    \E input \in Numbers, inputRange \in InputRanges, outputRange \in OutputRanges,
       extrapolate \in ExtrapolateArgs :
        /\ Len(inputRange) = Len(outputRange)
        /\ calc' = [fn |-> "interpolate", input |-> input,
                    inputRange |-> inputRange, outputRange |-> outputRange,
                    extrapolate |-> extrapolate,
                    result |-> interpolate(input, inputRange, outputRange,
                                           getExtrapolationMode(extrapolate))]
        /\ UNCHANGED <<providerVars, consumer, view, tab, hooks, focus, other>>

\* a caller builds a config with createInterpolation
CallCreateInterpolation ==
    \E inputRange \in InputRangeArgs, outputRange \in OutputRanges,
       extrapolate \in {"clamp", "extend", "identity"} :
        /\ calc' = [fn |-> "createInterpolation",
                    config |-> createInterpolation(inputRange, outputRange, extrapolate)]
        /\ UNCHANGED <<providerVars, consumer, view, tab, hooks, focus, other>>

\* a caller builds a config with createFadeInterpolation
CallCreateFadeInterpolation ==
    \E scrollDistance \in Numbers, fadeIn \in BOOLEAN :
        /\ calc' = [fn |-> "createFadeInterpolation",
                    config |-> createFadeInterpolation(scrollDistance, fadeIn)]
        /\ UNCHANGED <<providerVars, consumer, view, tab, hooks, focus, other>>

\* a MotionifyViewWithInterpolation with the given props: its style worklet
\* runs on the current scroll value
animatedStyleWithInterpolation(props) ==
    /\ mounted
    /\ \E value \in {scrollValue(props)} :
          calc' = [fn |-> "MotionifyViewWithInterpolation", props |-> props,
                   scrollValue |-> value,
                   style |-> MotionifyViewWithInterpolation(value, props)]
    /\ UNCHANGED <<providerVars, consumer, view, tab, hooks, focus, other>>

\* the other provider instance comes into focus: no instance changes, the
\* provider variables now hold the instance that `other` held
SwitchScope ==
    /\ focus' = IF focus = 1 THEN 2 ELSE 1
    /\ other' = FocusedProvider
    /\ scrollY' = other.scrollY
    /\ directionShared' = other.directionShared
    /\ direction' = other.direction
    /\ isScrolling' = other.isScrolling
    /\ threshold' = other.threshold
    /\ supportIdle' = other.supportIdle
    /\ previousYRef' = other.previousYRef
    /\ scrollStartYRef' = other.scrollStartYRef
    /\ isUserScrollingRef' = other.isUserScrollingRef
    /\ scrollTimeoutRef' = other.scrollTimeoutRef
    /\ thresholdRef' = other.thresholdRef
    /\ supportIdleRef' = other.supportIdleRef
    /\ jsQueue' = other.jsQueue
    /\ timers' = other.timers
    /\ mounted' = other.mounted
    /\ sampledSinceArm' = other.sampledSinceArm
    /\ UNCHANGED <<consumer, view, tab, hooks, calc>>

-----------------------------------------------------------------------------

Sample == \E e \in ScrollEvents : onScroll(e)

TimerFires == \E id \in TimerIds : resetToIdle(id)

CallSetThreshold == \E v \in ThresholdArgs : setThreshold(v)

CallSetSupportIdle == \E b \in BOOLEAN : setSupportIdle(b)

Next ==
    \/ Sample
    \/ RunOnJS
    \/ TimerFires
    \/ CallSetThreshold
    \/ CallSetSupportIdle
    \/ SyncThresholdRef
    \/ SyncSupportIdleRef
    \/ Unmount

Spec == Init /\ [][Next]_vars

-----------------------------------------------------------------------------
(* Samples with strictly increasing clamped offsets, from a provider with a
   positive threshold, and no idle timeout *)

InitIncreasing == Init /\ threshold > 0

SampleIncreasing ==
    \E e \in ScrollEvents :
        /\ isUserScrollingRef => ClampedY(e) > previousYRef
        /\ onScroll(e)

NextIncreasing ==
    \/ SampleIncreasing
    \/ RunOnJS
    \/ CallSetThreshold
    \/ CallSetSupportIdle
    \/ SyncThresholdRef
    \/ SyncSupportIdleRef

SpecIncreasing == InitIncreasing /\ [][NextIncreasing]_vars

-----------------------------------------------------------------------------
(* The offsets 0, 50, 100, 90 with threshold 8, from the initial state *)

InitReversal == Init /\ threshold = 8

ReversalNext(y) ==
    IF ~isUserScrollingRef THEN y = 0
    ELSE \/ previousYRef = 0 /\ y = 50
         \/ previousYRef = 50 /\ y = 100
         \/ previousYRef = 100 /\ y = 90

SampleReversal ==
    \E e \in ScrollEvents :
        /\ e.contentHeight = 700
        /\ ReversalNext(e.y)
        /\ onScroll(e)

NextReversal ==
    \/ SampleReversal
    \/ RunOnJS
    \/ CallSetSupportIdle
    \/ SyncSupportIdleRef

SpecReversal == InitReversal /\ [][NextReversal]_vars

\* C2: a run of strictly decreasing samples whose total decrease exceeds the
\* threshold reports "up" after some sample of the run; stated for the runs
\* of two samples (previousYRef, then the new sample).
C2_DecreasingRunReportsUp ==
    [][(Sample /\ isUserScrollingRef /\ previousYRef' < previousYRef
            /\ previousYRef - previousYRef' > thresholdRef)
        => (directionShared = "up" \/ directionShared' = "up")]_vars

\* C3: after 0, 50, 100 the sample 90 resets the anchor to the peak 100 and
\* reports "up" at once (threshold 8); "down" is reported after 50 and 100.
C3_UpAtFirstSampleBelowPeak ==
    /\ (isUserScrollingRef /\ previousYRef \in {50, 100}) => directionShared = "down"
    /\ (isUserScrollingRef /\ previousYRef = 90)
          => (scrollStartYRef = 100 /\ directionShared = "up")

C5_IdleOnceQuiet ==
    (/\ mounted
     /\ supportIdle
     /\ supportIdleRef
     /\ thresholdRef = threshold
     /\ jsQueue = <<>>
     /\ timers = {})
    => (directionShared = "idle" /\ direction = "idle" /\ isScrolling = FALSE)

\* C6: at most one idle timer is pending, and the reset to "idle" never
\* happens after a sample classified more recently than the timer was armed.
C6_Debounce ==
    /\ [](Cardinality(timers) <= 1)
    /\ [][TimerFires => ~sampledSinceArm]_vars

\* C7: setSupportIdle(false) cancels the pending idle timer, and no timer
\* resets to "idle" while supportIdle is disabled.
C7_DisableCancelsTimer ==
    [][/\ setSupportIdle(FALSE) => timers' = {}
       /\ TimerFires => supportIdle]_vars

\* C8: after the unmount no idle timer fires and the scroll state is not
\* written again.
C8_NoWriteAfterUnmount ==
    [][~mounted =>
        /\ ~TimerFires
        /\ UNCHANGED <<directionShared, direction, isScrolling, previousYRef,
                       scrollStartYRef, isUserScrollingRef>>]_vars

\* C9: setThreshold(v) with v <= 0 changes nothing at all; with v > 0 it makes
\* v the threshold and changes nothing else.
C9_SetThreshold ==
    [][\A v \in ThresholdArgs :
          setThreshold(v) =>
            /\ threshold' = IF v > 0 THEN v ELSE threshold
            /\ UNCHANGED <<scrollY, directionShared, direction, isScrolling,
                           supportIdle, previousYRef, scrollStartYRef,
                           isUserScrollingRef, scrollTimeoutRef, thresholdRef,
                           supportIdleRef, jsQueue, timers, mounted>>]_vars

C9_Witness ==
    /\ threshold = 15
    /\ thresholdRef = 15
    /\ directionShared = "up"

\* C10: a sample of a gesture under way is classified with the threshold most
\* recently set through setThreshold (the threshold state), also when the call
\* came between the previous sample and this one (thresholds > 0).
C10_NextSampleUsesNewThreshold ==
    [][(Sample /\ isUserScrollingRef /\ thresholdRef > 0) =>
        LET totalDelta == previousYRef' - scrollStartYRef'
            newDirection == NewDirection(totalDelta, threshold)
        IN  directionShared' =
              IF newDirection # "none" THEN newDirection ELSE directionShared]_vars

\* C11: while supportIdle is enabled, isScrolling = false implies direction =
\* "idle", for the JS-side pair and for the shared pair.
C11_NotScrollingIsIdle ==
    (mounted /\ supportIdle) =>
        /\ ~isScrolling => direction = "idle"
        /\ ~isUserScrollingRef => directionShared = "idle"

-----------------------------------------------------------------------------
(* supportIdle disabled for the whole run *)

InitNoIdle == Init /\ supportIdle = FALSE

NextNoIdle ==
    \/ Sample
    \/ RunOnJS
    \/ CallSetThreshold
    \/ SyncThresholdRef
    \/ Unmount

SpecNoIdle == InitNoIdle /\ [][NextNoIdle]_vars

\* C12: with supportIdle disabled for the whole run no idle timer is ever
\* armed, and once directionShared has left "idle" it never is "idle" again.
C12_NoIdleWithoutSupport ==
    /\ [](timers = {} /\ scrollTimeoutRef = NoTimer)
    /\ [](\A i \in 1..Len(jsQueue) : jsQueue[i][1] # "resetScrollTimeout")
    /\ [][directionShared # "idle" => directionShared' # "idle"]_vars

C12_Witness ==
    /\ ~supportIdle
    /\ directionShared = "up"
    /\ direction = "up"
    /\ isScrolling
    /\ jsQueue = <<>>

\* the provider under scroll samples alone: the props keep their mount values
NextSampling ==
    \/ Sample
    \/ RunOnJS
    \/ TimerFires
    \/ Unmount

SpecSampling == Init /\ [][NextSampling]_vars

\* C13: after every sample scrollY is that sample's offset clamped to
\* [0, max(0, contentHeight - layoutHeight)]: never negative, never above the
\* sample's maximum scroll.
C13_ScrollYClamped ==
    [][\A e \in ScrollEvents :
          onScroll(e) =>
            LET room == e.contentHeight - e.layoutHeight
                maxScroll == IF room > 0 THEN room ELSE 0
            IN  /\ scrollY' >= 0
                /\ scrollY' <= maxScroll
                /\ (e.y >= 0 /\ e.y <= maxScroll) => scrollY' = e.y
                /\ e.y < 0 => scrollY' = 0
                /\ e.y > maxScroll => scrollY' = maxScroll]_vars

C13_Witness ==
    /\ isUserScrollingRef
    /\ scrollY = 100
    /\ previousYRef = 100
    /\ scrollStartYRef = 0

-----------------------------------------------------------------------------
(* Content that never exceeds the viewport, threshold > 0 *)

InitShortContent == Init /\ threshold > 0

SampleShortContent ==
    \E e \in ScrollEvents :
        /\ e.contentHeight <= e.layoutHeight
        /\ onScroll(e)

NextShortContent ==
    \/ SampleShortContent
    \/ RunOnJS
    \/ TimerFires
    \/ CallSetThreshold
    \/ CallSetSupportIdle
    \/ SyncThresholdRef
    \/ SyncSupportIdleRef
    \/ Unmount

SpecShortContent == InitShortContent /\ [][NextShortContent]_vars

\* C14: when every sample has contentHeight <= layoutHeight (threshold > 0),
\* every clamped offset is 0, deltaY is 0 on every sample and directionShared
\* stays "idle".
C14_ShortContentStaysIdle ==
    /\ scrollY = 0
    /\ previousYRef = 0
    /\ scrollStartYRef = 0
    /\ directionShared = "idle"
    /\ direction = "idle"
    /\ \A i \in 1..Len(jsQueue) : jsQueue[i][1] # "updateDirection"

C14_Witness ==
    /\ isUserScrollingRef
    /\ isScrolling
    /\ directionShared = "idle"
    /\ thresholdRef = 15
    /\ timers # {}

\* a component using the hook renders, inside the provider or outside any
CallUseMotionify == \E inProvider \in BOOLEAN : useMotionify(inProvider)

NextHook ==
    \/ Sample
    \/ RunOnJS
    \/ TimerFires
    \/ Unmount
    \/ CallUseMotionify

SpecHook == Init /\ [][NextHook]_vars

\* C15: a hook call outside every provider throws and returns nothing (no
\* default context); a call inside the provider does not throw and returns
\* exactly the provider's context value.
C15_HookNeedsProvider ==
    [][\A inProvider \in BOOLEAN :
          useMotionify(inProvider) =>
            IF inProvider
            THEN /\ ~consumer'.threw
                 /\ consumer'.returned =
                        {[provided |-> TRUE, scrollY |-> scrollY,
                          direction |-> direction,
                          directionShared |-> directionShared,
                          isScrolling |-> isScrolling]}
            ELSE /\ consumer'.threw
                 /\ consumer'.returned = {}]_vars

\* the hook was called outside the provider, after the provider had scrolled
C15_Witness ==
    /\ consumer.called
    /\ ~consumer.inProvider
    /\ consumer.threw
    /\ directionShared = "down"

\* a MotionifyView rendered with any of the prop combinations
InitView ==
    /\ InitProvider
    /\ consumer = NoCall
    /\ \E props \in ViewProps : view = MountedView(props)
    /\ tab = MountedTab(DefaultTabProps, Undefined)
    /\ hooks = NoHooks
    /\ focus = 1
    /\ other = MountedProvider(DEFAULT_THRESHOLD, DEFAULT_SUPPORT_IDLE)
    /\ calc = NoCalc

NextView ==
    \/ Sample
    \/ RunOnJS
    \/ TimerFires
    \/ animatedStyle

SpecView == InitView /\ [][NextView]_vars

\* C16: with animatedY the view starts visible (target translateRange.from),
\* and every run of the style worklet sets the target to translateRange.to
\* exactly when directionShared = hideOn and to translateRange.from otherwise,
\* whatever the target was before.
C16_DirectionRule ==
    /\ view.props.animatedY
          => TransformValue(view.style, "translateY") = view.props.translateRange.from
    /\ [][(animatedStyle /\ view.props.animatedY) =>
            /\ directionShared = view.props.hideOn
                  => TransformValue(view'.style, "translateY") = view.props.translateRange.to
            /\ directionShared # view.props.hideOn
                  => TransformValue(view'.style, "translateY") = view.props.translateRange.from]_vars

\* hidden on "up": the view was visible while directionShared was "down"
C16_Witness ==
    /\ view.props.animatedY
    /\ view.props.hideOn = "up"
    /\ directionShared = "up"
    /\ TransformValue(view.style, "translateY") = view.props.translateRange.to

\* a MotionifyBottomTab rendered with any of the prop combinations on any route
InitTab ==
    /\ InitProvider
    /\ consumer = NoCall
    /\ view = MountedView(DefaultViewProps)
    /\ \E props \in TabProps, currentId \in RouteIds :
          tab = MountedTab(props, currentId)
    /\ hooks = NoHooks
    /\ focus = 1
    /\ other = MountedProvider(DEFAULT_THRESHOLD, DEFAULT_SUPPORT_IDLE)
    /\ calc = NoCalc

\* the tab renders again: on a route change, or with the route it had
RenderTab == \E currentId \in RouteIds : MotionifyBottomTab(currentId)

NextTab ==
    \/ Sample
    \/ RunOnJS
    \/ TimerFires
    \/ RenderTab
    \/ translateY

SpecTab == InitTab /\ [][NextTab]_vars

\* the direction rule of the tab: hidden exactly when directionShared = hideOn
TabDirectionRule ==
    IF directionShared = tab.props.hideOn
    THEN tab.props.translateRange.to
    ELSE tab.props.translateRange.from

\* C17 as stated: whenever the target is computed, an excluded route gives
\* translateRange.from and any other route (or none) gives the direction rule.
C17_ExcludedElseDirectionRule ==
    [][(RenderTab \/ translateY) =>
          IF IsExcluded(tab'.props.exclude, tab'.currentId)
          THEN tab'.translateY = tab.props.translateRange.from
          ELSE tab'.translateY = TabDirectionRule]_vars

\* C17 amended: on an excluded route the target is translateRange.from in
\* every state, whatever directionShared does; on any other route a
\* computation gives the direction rule unless the last render changed the
\* route, and then it gives translateRange.from.
C17_ExcludedPinnedElseRuleAfterRender ==
    /\ [](IsExcluded(tab.props.exclude, tab.currentId)
            => tab.translateY = tab.props.translateRange.from)
    /\ [][((RenderTab \/ translateY)
            /\ ~IsExcluded(tab'.props.exclude, tab'.currentId)) =>
              IF tab'.idChanged
              THEN tab'.translateY = tab.props.translateRange.from
              ELSE tab'.translateY = TabDirectionRule]_vars

\* on the excluded route the tab is visible although directionShared = hideOn
\* and the route did not change in the last render
C17_Witness ==
    /\ IsExcluded(tab.props.exclude, tab.currentId)
    /\ ~tab.idChanged
    /\ isUserScrollingRef
    /\ directionShared = tab.props.hideOn
    /\ direction = tab.props.hideOn
    /\ tab.translateY = tab.props.translateRange.from

\* C18: a render with a currentId different from the previous one sets the
\* target to translateRange.from in that very step, whatever directionShared is.
C18_RouteChangeShows ==
    [][tab'.currentId # tab.currentId
          => tab'.translateY = tab.props.translateRange.from]_vars

\* the route changed to one that is not excluded while directionShared = hideOn
C18_Witness ==
    /\ tab.idChanged
    /\ ~tab.isExcluded
    /\ tab.props.exclude # {}
    /\ directionShared = tab.props.hideOn
    /\ tab.translateY = tab.props.translateRange.from

\* C19: a sample that changes directionShared hands over exactly one
\* updateDirection, carrying the new value; a sample that leaves directionShared
\* as it was (same direction, or no classification) hands over none.
C19_DirectionHandOffOnChangeOnly ==
    [][Sample =>
        LET sent == SubSeq(jsQueue', Len(jsQueue) + 1, Len(jsQueue'))
            updates == {i \in 1..Len(sent) : sent[i][1] = "updateDirection"}
        IN  /\ Len(jsQueue') >= Len(jsQueue)
            /\ SubSeq(jsQueue', 1, Len(jsQueue)) = jsQueue
            /\ directionShared' # directionShared
                  => /\ Cardinality(updates) = 1
                     /\ \A i \in updates : sent[i][2] = directionShared'
            /\ directionShared' = directionShared => updates = {}]_vars

\* the last sample reversed at 90 and gave no classification (totalDelta = 0):
\* directionShared is still "down" and nothing is waiting to be handed over
C19_Witness ==
    /\ directionShared = "down"
    /\ direction = "down"
    /\ scrollStartYRef = 90
    /\ previousYRef = 90
    /\ jsQueue = <<>>

\* C20: a sample that changes neither directionShared nor the scrolling flag
\* hands nothing over to the JS context.
C20_NoHandOffWithoutChange ==
    [][(Sample /\ isUserScrollingRef /\ directionShared' = directionShared)
          => jsQueue' = jsQueue]_vars

\* C21: a sample changes directionShared only when the offset has moved at
\* least threshold pixels from the anchor in the new direction (threshold > 0).
C21_SwitchNeedsThreshold ==
    [][(Sample /\ thresholdRef > 0 /\ directionShared' # directionShared) =>
        LET totalDelta == previousYRef' - scrollStartYRef'
        IN  /\ directionShared' = "down" => totalDelta >= thresholdRef
            /\ directionShared' = "up" => -totalDelta >= thresholdRef]_vars

\* C22: with a threshold <= 0 in effect, a sample whose totalDelta is negative
\* reports "up", and a sample whose totalDelta is 0 does not turn the
\* direction to "up".
C22_NonPositiveThresholdAnyUpward ==
    [][(Sample /\ thresholdRef <= 0) =>
        LET totalDelta == previousYRef' - scrollStartYRef'
        IN  /\ totalDelta < 0 => directionShared' = "up"
            /\ (totalDelta = 0 /\ directionShared # "up")
                  => directionShared' # "up"]_vars

\* components mount and unmount with their own useMotionify config, while the
\* scroll view is at rest
CallMountConsumer ==
    \E c \in Consumers, config \in HookConfigs : MountConsumer(c, config)

CallUnmountConsumer == \E c \in Consumers : UnmountConsumer(c)

NextConsumers ==
    \/ SyncThresholdRef
    \/ SyncSupportIdleRef
    \/ CallMountConsumer
    \/ CallUnmountConsumer

SpecConsumers == Init /\ [][NextConsumers]_vars

\* C23: when a component mounts with useMotionify(config), the provider's
\* threshold becomes config.threshold (any value > 0) and its supportIdle
\* becomes config.supportIdle, whatever they were before.
C23_HookConfigApplies ==
    [][\A c \in Consumers, config \in HookConfigs :
          MountConsumer(c, config) =>
            /\ config.threshold > 0 => threshold' = config.threshold
            /\ supportIdle' = config.supportIdle]_vars

\* two provider instances alive at once: instance 1 was given supportIdle,
\* instance 2 was not
InitScopes ==
    /\ InitProvider
    /\ threshold = DEFAULT_THRESHOLD
    /\ supportIdle = TRUE
    /\ consumer = NoCall
    /\ view = MountedView(DefaultViewProps)
    /\ tab = MountedTab(DefaultTabProps, Undefined)
    /\ hooks = NoHooks
    /\ focus = 1
    /\ other = MountedProvider(DEFAULT_THRESHOLD, FALSE)
    /\ calc = NoCalc

\* the samples either scroll view reports: at the top, and 50 further down
SampleScopes ==
    \E e \in ScrollEvents :
        /\ e.y \in {0, 50}
        /\ e.contentHeight = 700
        /\ onScroll(e)

NextScopes ==
    \/ SampleScopes
    \/ RunOnJS
    \/ TimerFires
    \/ CallSetThreshold
    \/ CallSetSupportIdle
    \/ SwitchScope

SpecScopes == InitScopes /\ [][NextScopes]_vars

\* C24: a step of one provider instance (a sample, a hand-off, a setter call,
\* an idle timeout) leaves the whole state of the other instance as it was, and
\* a change of focus changes the state of neither.
C24_ScopesIndependent ==
    [][\A s \in Scopes :
          (focus' # focus \/ focus # s) => ScopeState(s)' = ScopeState(s)]_vars

\* instance 1 has scrolled down and has its idle timer pending; instance 2,
\* in focus, was given a threshold of 15 and supportIdle, and has sampled at
\* the top since: each keeps its own values
C24_Witness ==
    /\ focus = 2
    /\ other.directionShared = "down"
    /\ other.scrollY = 50
    /\ other.timers # {}
    /\ other.threshold = DEFAULT_THRESHOLD
    /\ isUserScrollingRef
    /\ directionShared = "idle"
    /\ scrollY = 0
    /\ threshold = 15
    /\ supportIdle
    /\ timers = {}

\* the exported helpers and the interpolation of the components, called with
\* arguments from the sets above
NextHelpers ==
    \/ CallMapRange
    \/ CallInterpolate
    \/ CallCreateInterpolation
    \/ CallCreateFadeInterpolation

InitHelpers == Init /\ threshold = DEFAULT_THRESHOLD /\ supportIdle = DEFAULT_SUPPORT_IDLE

SpecHelpers == InitHelpers /\ [][NextHelpers]_vars

StrictlyIncreasing(range) ==
    \A i \in 1..(Len(range) - 1) : Less(range[i], range[i + 1])

\* C25: with a strictly increasing inputRange, interpolation at the first input
\* breakpoint gives the first output and at the last breakpoint the last output,
\* in every extrapolation mode; mapRange at inputMin gives outputMin and at
\* inputMax gives outputMax (inputMin < inputMax).
C25_EndpointsExact ==
    /\ (calc.fn = "interpolate" /\ StrictlyIncreasing(calc.inputRange)) =>
          /\ calc.input = calc.inputRange[1]
                => calc.result = calc.outputRange[1]
          /\ calc.input = calc.inputRange[Len(calc.inputRange)]
                => calc.result = calc.outputRange[Len(calc.outputRange)]
    /\ (calc.fn = "mapRange" /\ Less(calc.inputMin, calc.inputMax)) =>
          /\ calc.value = calc.inputMin => calc.result = calc.outputMin
          /\ calc.value = calc.inputMax => calc.result = calc.outputMax

\* an interpolation was evaluated at an input outside its strictly increasing
\* inputRange
OutsideCall ==
    /\ calc.fn = "interpolate"
    /\ StrictlyIncreasing(calc.inputRange)
    /\ \/ Less(calc.input, calc.inputRange[1])
       \/ Less(calc.inputRange[Len(calc.inputRange)], calc.input)

\* C26: outside the input range, "clamp" and an omitted mode give the output of
\* the boundary that was passed, "identity" gives the input itself, and
\* "extend" continues the boundary segment: on [0,100] -> [0,50] the input 150
\* gives 75 and the input -10 gives -5 (and 0 when clamped).
C26_ExtrapolationModes ==
    OutsideCall =>
        /\ calc.extrapolate \in {"clamp", Undefined} =>
              calc.result = IF Less(calc.input, calc.inputRange[1])
                            THEN calc.outputRange[1]
                            ELSE calc.outputRange[Len(calc.outputRange)]
        /\ calc.extrapolate = "identity" => calc.result = calc.input
        /\ (/\ calc.extrapolate = "extend"
            /\ calc.inputRange = <<Num(0), Num(100)>>
            /\ calc.outputRange = <<Num(0), Num(50)>>) =>
              /\ calc.input = Num(150) => calc.result = Num(75)
              /\ calc.input = Num(-10) => calc.result = Num(-5)

\* the input -10 on [0,100] -> [0,50] with the mode omitted gave 0
C26_Witness ==
    /\ OutsideCall
    /\ calc.extrapolate = Undefined
    /\ calc.input = Num(-10)
    /\ calc.inputRange = <<Num(0), Num(100)>>
    /\ calc.outputRange = <<Num(0), Num(50)>>
    /\ calc.result = Num(0)

\* a valid interpolation config: ranges of one length, at least two
\* breakpoints, inputRange strictly increasing
ValidConfig(config) ==
    /\ Len(config.inputRange) = Len(config.outputRange)
    /\ Len(config.inputRange) >= 2
    /\ StrictlyIncreasing(config.inputRange)

\* C27: building a config that is not valid fails: the helper throws.
C27_InvalidConfigRejected ==
    (/\ calc.fn \in {"createInterpolation", "createFadeInterpolation"}
     /\ ~ValidConfig(calc.config))
        => calc.config.threw

\* C28: on a zero-width input segment the result is finite and is the
\* segment's first output: for mapRange with inputMin = inputMax, and for an
\* interpolation whose two breakpoints coincide (unless "identity" returns the
\* input outside the range).
C28_ZeroWidthSegment ==
    /\ (calc.fn = "mapRange" /\ calc.inputMin = calc.inputMax) =>
          /\ IsFinite(calc.result)
          /\ calc.result = calc.outputMin
    /\ (/\ calc.fn = "interpolate"
        /\ Len(calc.inputRange) = 2
        /\ calc.inputRange[1] = calc.inputRange[2]) =>
          /\ IsFinite(calc.result)
          /\ (calc.extrapolate # "identity" \/ calc.input = calc.inputRange[1])
                => calc.result = calc.outputRange[1]

\* C29: a sample on which a reversal is detected (the accumulated movement and
\* this sample's movement have opposite signs) moves the anchor to the sample's
\* own clamped offset and, with a threshold > 0, leaves directionShared as it
\* was; after every sample the accumulated movement clampedY - scrollStart and
\* the sample's deltaY do not have opposite signs.
C29_ReversalResetsAnchor ==
    [][Sample =>
        LET clampedY == previousYRef'
            deltaY == clampedY - previousYRef
            anchor == IF isUserScrollingRef THEN scrollStartYRef ELSE clampedY
            totalDelta == clampedY - anchor
            reversal == \/ (totalDelta > 0 /\ deltaY < 0)
                        \/ (totalDelta < 0 /\ deltaY > 0)
            after == clampedY - scrollStartYRef'
        IN  /\ reversal =>
                  /\ scrollStartYRef' = clampedY
                  /\ thresholdRef > 0 => directionShared' = directionShared
            /\ ~(after > 0 /\ deltaY < 0)
            /\ ~(after < 0 /\ deltaY > 0)]_vars

\* "up" was reported below 100, then a sample came back up to 90: the anchor
\* is at 90 and the direction is still "up"
C29_Witness ==
    /\ isUserScrollingRef
    /\ thresholdRef = DEFAULT_THRESHOLD
    /\ directionShared = "up"
    /\ scrollStartYRef = 90
    /\ previousYRef = 90

\* C30: the first sample of a gesture (isUserScrollingRef false: the initial
\* state, or after an idle reset) sets the anchor to its own clamped offset,
\* sets the scrolling flag and hands over updateIsScrolling(true); with a
\* threshold > 0 it leaves directionShared as it was.
C30_FirstSampleAnchors ==
    [][(Sample /\ ~isUserScrollingRef) =>
          /\ scrollStartYRef' = previousYRef'
          /\ scrollStartYRef' = scrollY'
          /\ isUserScrollingRef'
          /\ Len(jsQueue') > Len(jsQueue)
          /\ jsQueue'[Len(jsQueue) + 1] = <<"updateIsScrolling", "true">>
          /\ thresholdRef > 0 => directionShared' = directionShared]_vars

\* an idle timeout has fired (scrollTimeoutRef holds a timer that is gone) and
\* a sample at 50 has started the next gesture: anchored at 50, still "idle"
C30_Witness ==
    /\ mounted
    /\ scrollTimeoutRef # NoTimer
    /\ scrollTimeoutRef \notin timers
    /\ isUserScrollingRef
    /\ thresholdRef > 0
    /\ directionShared = "idle"
    /\ scrollStartYRef = 50
    /\ previousYRef = 50

-----------------------------------------------------------------------------

\* C31: isScrolling turns true only when the updateIsScrolling(true) hand-off
\* of a gesture's first sample is delivered, and that delivery does turn it
\* true; it turns false only when an idle timer fires; no sample changes it or
\* hands over updateIsScrolling(false); with supportIdle disabled (the props
\* keep their mount values) it never turns false again.
C31_IsScrollingLifecycle ==
    /\ [][(~isScrolling /\ isScrolling') =>
            /\ RunOnJS
            /\ Head(jsQueue) = <<"updateIsScrolling", "true">>]_vars
    /\ [][(mounted /\ RunOnJS /\ Head(jsQueue) = <<"updateIsScrolling", "true">>) =>
            isScrolling']_vars
    /\ [][(isScrolling /\ ~isScrolling') => TimerFires]_vars
    /\ [][Sample =>
            /\ isScrolling' = isScrolling
            /\ ~isUserScrollingRef =>
                  \E i \in Len(jsQueue) + 1 .. Len(jsQueue') :
                      jsQueue'[i] = <<"updateIsScrolling", "true">>
            /\ isUserScrollingRef =>
                  \A i \in Len(jsQueue) + 1 .. Len(jsQueue') :
                      jsQueue'[i][1] # "updateIsScrolling"]_vars
    /\ [](\A i \in 1..Len(jsQueue) : jsQueue[i] # <<"updateIsScrolling", "false">>)
    /\ [][(~supportIdle /\ isScrolling) => isScrolling']_vars

\* an idle timer ended a gesture (the timer the ref holds has fired), a first
\* sample followed and its updateIsScrolling(true) was delivered
C31_Witness ==
    /\ mounted
    /\ supportIdle
    /\ scrollTimeoutRef # NoTimer
    /\ scrollTimeoutRef \notin timers
    /\ isUserScrollingRef
    /\ isScrolling
    /\ jsQueue = << <<"resetScrollTimeout", "">> >>

-----------------------------------------------------------------------------

\* C32: whenever every hand-off has been delivered and no idle timer is
\* pending, the JS-side direction equals directionShared and the JS-side
\* isScrolling equals isUserScrollingRef.
C32_JSFollowsSharedWhenQuiet ==
    (mounted /\ jsQueue = <<>> /\ timers = {}) =>
        /\ direction = directionShared
        /\ isScrolling = isUserScrollingRef

-----------------------------------------------------------------------------

\* C33: for a MotionifyView with fadeScale (and no customEffects) every run
\* of the style worklet sets opacity to 0 and scale to 0.9 exactly when
\* directionShared = hideOn, and to 1 and 1 otherwise; with animatedY too,
\* translateY, opacity and scale agree on hidden or visible in every state.
C33_FadeScaleLockstep ==
    /\ [][(animatedStyle /\ view.props.fadeScale) =>
            /\ directionShared = view.props.hideOn
                  => /\ view'.style["opacity"] = 0
                     /\ TransformValue(view'.style, "scale") = 9
            /\ directionShared # view.props.hideOn
                  => /\ view'.style["opacity"] = 1
                     /\ TransformValue(view'.style, "scale") = 10]_vars
    /\ [](view.props.fadeScale =>
            \/ /\ view.style["opacity"] = 0
               /\ TransformValue(view.style, "scale") = 9
            \/ /\ view.style["opacity"] = 1
               /\ TransformValue(view.style, "scale") = 10)
    /\ []((view.props.fadeScale /\ view.props.animatedY) =>
            (TransformValue(view.style, "translateY") = view.props.translateRange.to
                <=> view.style["opacity"] = 0))

\* a view with both modes, hidden on "down", after the worklet ran on "down"
C33_Witness ==
    /\ view.props.fadeScale
    /\ view.props.animatedY
    /\ view.props.hideOn = "down"
    /\ directionShared = "down"
    /\ view.style["opacity"] = 0
    /\ TransformValue(view.style, "scale") = 9
    /\ TransformValue(view.style, "translateY") = view.props.translateRange.to

-----------------------------------------------------------------------------
(* Views with custom style worklets *)

InitCustom ==
    /\ InitProvider
    /\ threshold = DEFAULT_THRESHOLD
    /\ supportIdle = DEFAULT_SUPPORT_IDLE
    /\ consumer = NoCall
    /\ \E props \in ViewPropsCustom : view = MountedView(props)
    /\ tab = MountedTab(DefaultTabProps, Undefined)
    /\ hooks = NoHooks
    /\ focus = 1
    /\ other = MountedProvider(DEFAULT_THRESHOLD, DEFAULT_SUPPORT_IDLE)
    /\ calc = NoCalc

RenderInterpolationCustom ==
    \E props \in InterpolationPropsCustom : animatedStyleWithInterpolation(props)

NextCustom ==
    \/ SampleScopes
    \/ RunOnJS
    \/ animatedStyle
    \/ RenderInterpolationCustom

SpecCustom == InitCustom /\ [][NextCustom]_vars

\* the custom result is merged last into the built-in result: the output has
\* the keys of both, the custom value for every key of the custom result and
\* the built-in value for every other key
MergedLast(output, builtIn, custom) ==
    /\ DOMAIN output = DOMAIN builtIn \cup DOMAIN custom
    /\ \A k \in DOMAIN custom : output[k] = custom[k]
    /\ \A k \in DOMAIN builtIn \ DOMAIN custom : output[k] = builtIn[k]

\* C34: in MotionifyView and MotionifyViewWithInterpolation the style returned
\* by customEffects / customAnimatedStyle is merged last: a key present in the
\* built-in and in the custom result carries the custom value, a built-in key
\* absent from the custom result keeps its built-in value.
C34_CustomMergedLast ==
    /\ [][animatedStyle =>
            MergedLast(view'.style,
                       MotionifyViewStyle(directionShared,
                           [view.props EXCEPT !.customEffects = NoEffects]),
                       customEffects(view.props.customEffects, directionShared))]_vars
    /\ [][calc' # calc =>
            MergedLast(calc'.style,
                       MotionifyViewWithInterpolation(calc'.scrollValue,
                           [calc'.props EXCEPT !.customAnimatedStyle = NoEffects]),
                       customAnimatedStyle(calc'.props.customAnimatedStyle,
                                           calc'.scrollValue))]_vars

\* both components with a custom opacity that differs from the built-in one,
\* and a built-in transform that the custom result leaves alone
C34_Witness ==
    /\ view.props.customEffects = "fade"
    /\ view.props.fadeScale
    /\ view.props.hideOn = "down"
    /\ directionShared = "down"
    /\ view.style["opacity"] = 1
    /\ TransformValue(view.style, "scale") = 9
    /\ calc.fn = "MotionifyViewWithInterpolation"
    /\ calc.props.customAnimatedStyle = "fade"
    /\ DOMAIN calc.props.interpolations = {"opacity", "rotate"}
    /\ calc.scrollValue = Num(150)
    /\ calc.style["opacity"] = Num(1)
    /\ HasTransform(calc.style, "rotate")

-----------------------------------------------------------------------------
(* MotionifyViewWithInterpolation under a scrolling provider *)

RenderInterpolation ==
    \E props \in InterpolationProps : animatedStyleWithInterpolation(props)

NextInterpolation ==
    \/ SampleScopes
    \/ RunOnJS
    \/ RenderInterpolation

SpecInterpolation == InitHelpers /\ [][NextInterpolation]_vars

\* the transform channels, in the order of their blocks
TransformChannels == ChannelSet \ {"opacity"}

\* C35: the style of MotionifyViewWithInterpolation has a channel exactly when
\* a config is supplied for it, each channel is its config evaluated at the
\* current scroll value (the value prop when given, else the provider's
\* scrollY), there is no transform key when no transform channel is
\* configured, and the rotate value is the interpolated number followed by
\* "deg".
C35_ChannelsAsConfigured ==
    [][calc' # calc =>
        LET props == calc'.props
            style == calc'.style
            current == IF props.value.given THEN props.value.value ELSE Num(scrollY)
            configured == DOMAIN props.interpolations
        IN  /\ calc'.scrollValue = current
            /\ DOMAIN style \subseteq {"opacity", "transform"}
            /\ "opacity" \in DOMAIN style <=> "opacity" \in configured
            /\ "opacity" \in configured =>
                  style["opacity"] =
                      InterpolateChannel(current, props.interpolations["opacity"])
            /\ "transform" \in DOMAIN style <=> configured \cap TransformChannels # {}
            /\ Len(TransformOf(style)) = Cardinality(configured \cap TransformChannels)
            /\ \A channel \in TransformChannels :
                  /\ HasTransform(style, channel) <=> channel \in configured
                  /\ channel \in configured =>
                        TransformValue(style, channel) =
                            IF channel = "rotate"
                            THEN Suffix(InterpolateChannel(current,
                                            props.interpolations[channel]), "deg")
                            ELSE InterpolateChannel(current,
                                     props.interpolations[channel])]_vars

\* a view with an explicit value of 150 while the provider's scrollY is 50,
\* with opacity (clamped to 0) and rotate (extended to 135deg) configured
C35_Witness ==
    /\ calc.fn = "MotionifyViewWithInterpolation"
    /\ calc.props.value.given
    /\ calc.scrollValue = Num(150)
    /\ scrollY = 50
    /\ DOMAIN calc.props.interpolations = {"opacity", "rotate"}
    /\ DOMAIN calc.style = {"opacity", "transform"}
    /\ calc.style["opacity"] = Num(0)
    /\ TransformOf(calc.style) = << [name |-> "rotate", value |-> Suffix(Num(135), "deg")] >>

-----------------------------------------------------------------------------

\* C36: when a component that mounted with useMotionify({threshold: t}), t
\* different from 8, unmounts, the threshold in effect returns to the value it
\* had before that component mounted.
C36_UnmountRestoresThreshold ==
    [][\A c \in Consumers :
          (UnmountConsumer(c) /\ hooks[c].config.threshold # DEFAULT_THRESHOLD) =>
              threshold' = hooks[c].thresholdAtMount]_vars

\* C37: while a mounted consumer requests supportIdle = true, supportIdle
\* stays enabled, whatever other consumers mount or unmount.
C37_SupportIdleWhileRequested ==
    (mounted /\ \E c \in Consumers : hooks[c].mounted /\ hooks[c].config.supportIdle)
        => supportIdle

-----------------------------------------------------------------------------

\* C38: after a route change has made the tab visible, a re-render with the
\* same currentId (directionShared is not touched by a render) leaves it
\* visible.
C38_StaysVisibleAfterRouteChange ==
    [][(/\ tab.idChanged
        /\ tab.translateY = tab.props.translateRange.from
        /\ RenderTab
        /\ tab'.currentId = tab.currentId
        /\ directionShared' = directionShared) =>
            tab'.translateY = tab.props.translateRange.from]_vars

====
